---------------------------- MODULE Spec2Model ----------------------------
(***************************************************************************)
(* Model of src/server.js: the Express server that creates Razorpay orders *)
(* (POST /create-order) and verifies payment confirmations and grants      *)
(* course access in Supabase (POST /verify-payment).                       *)
(*                                                                         *)
(* The file holds two successive revisions of the server.  The later one   *)
(* (lines 109-318) redeclares every binding of the earlier one (lines      *)
(* 1-107) and is the program modelled here; its signature check and its    *)
(* missing-field check are the same statements as in the earlier revision. *)
(*                                                                         *)
(* Text that is hashed (order ids, payment ids, signatures, the secret) is *)
(* a sequence of one-character strings.  Other text (slugs, user ids) is a *)
(* TLA+ string.  A JavaScript object is a function whose DOMAIN holds the  *)
(* keys that are present; an absent key reads as undefined.                *)
(***************************************************************************)
EXTENDS Integers, Sequences, FiniteSets, TLC

(***************************************************************************)
(* Bounds of the model.                                                    *)
(***************************************************************************)
\* Number of hexadecimal digits kept of a digest.
DigestLen == 2
\* Number of orders the gateway accepts through /create-order.
MaxOrders == 2

(***************************************************************************)
(* crypto.createHmac("sha256", key).update(text).digest("hex")             *)
(* The HMAC construction over a small hash: H((key xor opad) ++            *)
(* H((key xor ipad) ++ text)), the digest written in lowercase hex.        *)
(***************************************************************************)
HexDigits == <<"0", "1", "2", "3", "4", "5", "6", "7",
               "8", "9", "a", "b", "c", "d", "e", "f">>

Alphabet == <<"|", "_", "o", "p", "k", "x", "y", "u", "n", "i">> \o HexDigits

\* The byte of each character.
CodeOf ==
    [c \in {Alphabet[i] : i \in 1..Len(Alphabet)} |->
        CHOOSE i \in 1..Len(Alphabet) : Alphabet[i] = c]

CharCode(c) == CodeOf[c]

Bytes(text) == [i \in 1..Len(text) |-> CharCode(text[i])]

RECURSIVE Xor(_, _)
Xor(a, b) ==
    IF a = 0 /\ b = 0 THEN 0
    ELSE ((a + b) % 2) + 2 * Xor(a \div 2, b \div 2)

IPAD == 54
OPAD == 92

DigestSpace == 16 ^ DigestLen

\* The hash: a non-linear fold of the bytes, kept to the digest's width.
RECURSIVE HashFrom(_, _)
HashFrom(h, bytes) ==
    IF bytes = <<>> THEN h
    ELSE HashFrom(((((h + Head(bytes)) * (h + Head(bytes) + 1)) \div 2)
                       + 33 * h + Head(bytes)) % DigestSpace,
                  Tail(bytes))

Hash(bytes) == HashFrom(5381 % DigestSpace, bytes)

RECURSIVE Hex(_, _)
Hex(n, len) ==
    IF len = 0 THEN <<>>
    ELSE Append(Hex(n \div 16, len - 1), HexDigits[(n % 16) + 1])

Pad(key, pad) == [i \in 1..Len(key) |-> Xor(CharCode(key[i]), pad)]

createHmac(key, text) ==
    LET inner == Hash(Pad(key, IPAD) \o Bytes(text))
        outer == Hash(Pad(key, OPAD) \o <<inner>>)
    IN  Hex(outer, DigestLen)

(***************************************************************************)
(* JavaScript values.                                                      *)
(***************************************************************************)
Has(obj, k) == k \in DOMAIN obj

\* !x for a key holding hashed text, other text, or a number.
FalsyText(obj, k) == ~Has(obj, k) \/ obj[k] = <<>>
FalsyStr(obj, k) == ~Has(obj, k) \/ obj[k] = ""
FalsyNum(obj, k) == ~Has(obj, k) \/ obj[k] = 0

\* String concatenation's view of a key: an absent key reads "undefined".
ToText(obj, k) ==
    IF Has(obj, k) THEN obj[k]
    ELSE <<"u", "n", "d", "e", "f", "i", "n", "e", "d">>

\* { ...a, ...b }
Spread(a, b) ==
    [k \in DOMAIN a \cup DOMAIN b |-> IF k \in DOMAIN b THEN b[k] ELSE a[k]]

EmptyObject == [k \in {} |-> 0]

Without(obj, k) == [j \in DOMAIN obj \ {k} |-> obj[j]]

\* The keys of ks that obj holds: a key whose value is undefined is not
\* part of an object that is sent or stored.
Pick(obj, ks) == [j \in DOMAIN obj \cap ks |-> obj[j]]

(***************************************************************************)
(* Environment.                                                            *)
(***************************************************************************)
\* process.env.RAZORPAY_KEY_SECRET
KEY_SECRET == <<"k", "e", "y">>

\* A key the server does not hold.
ForeignSecret == <<"k", "y">>

\* The id the gateway gives the n-th order created through /create-order.
OrderId(n) == <<"o", HexDigits[n + 1]>>

PaymentIds == {<<"p", "1">>}

\* The readings of Date.now().
Clock == {"1700000000000"}

\* The courses table of the store.
CourseRows ==
    {[id |-> 11, slug |-> "intro-ts"], [id |-> 22, slug |-> "adv-go"]}

\* Orders the gateway holds that were not created through /create-order:
\* one without notes, one whose notes name a course and no user.
ForeignOrders ==
    {[id |-> <<"x", "0">>, amount |-> 100, currency |-> "INR",
      receipt |-> "ext-0", notes |-> EmptyObject, status |-> "created"],
     [id |-> <<"x", "1">>, amount |-> 100, currency |-> "INR",
      receipt |-> "ext-1", notes |-> [course_slug |-> "intro-ts"],
      status |-> "created"]}

ForeignIds == {o.id : o \in ForeignOrders}

\* Order ids a confirmation may name.
OrderIds == ForeignIds \cup {OrderId(n) : n \in 1..MaxOrders}

(***************************************************************************)
(* Request bodies the clients send.                                        *)
(***************************************************************************)
BaseOrderBody ==
    [amount |-> 50000, course_slug |-> "intro-ts", user_id |-> "u123"]

CreateOrderBodies ==
    { BaseOrderBody,
      [amount |-> 20000, course_slug |-> "adv-go", user_id |-> "u456",
       currency |-> "USD", receipt |-> "r-77",
       notes |-> [campaign |-> "spring"]],
      [amount |-> 50000, course_slug |-> "no-such", user_id |-> "u123"],
      [amount |-> 50000, course_slug |-> "intro-ts", user_id |-> "u123",
       notes |-> [course_slug |-> "adv-go", user_id |-> "u456"]],
      [BaseOrderBody EXCEPT !.amount = 0],
      [BaseOrderBody EXCEPT !.course_slug = ""],
      [BaseOrderBody EXCEPT !.user_id = ""],
      EmptyObject }
    \cup { Without(BaseOrderBody, k) : k \in DOMAIN BaseOrderBody }

Confirmation(o, p, s) ==
    [razorpay_order_id |-> o, razorpay_payment_id |-> p,
     razorpay_signature |-> s]

HexIndex(c) == CHOOSE i \in 1..Len(HexDigits) : HexDigits[i] = c

\* The signature with its i-th character replaced by the next hex digit.
Mutate(sig, i) ==
    [sig EXCEPT ![i] = HexDigits[(HexIndex(sig[i]) % 16) + 1]]

\* The signature the gateway's checkout gives for the pair (o, p).
GatewaySignature(o, p) == createHmac(KEY_SECRET, o \o <<"|">> \o p)

\* Signatures a client may send with the pair (o, p): the gateway's, one
\* made with another key, one made without the separator, and every
\* single-character mutation of the gateway's.
Signatures(o, p) ==
    {GatewaySignature(o, p),
     createHmac(ForeignSecret, o \o <<"|">> \o p),
     createHmac(KEY_SECRET, o \o p)}
    \cup {Mutate(GatewaySignature(o, p), i) : i \in 1..DigestLen}

FullConfirmations ==
    UNION { UNION { { Confirmation(o, p, s) : s \in Signatures(o, p) }
                    : p \in PaymentIds }
            : o \in OrderIds }

\* Confirmations with a key absent or empty; the signature is the
\* gateway's for the text the server would hash.
PartialConfirmations ==
    LET o == OrderId(1)
        p == CHOOSE q \in PaymentIds : TRUE
        full == Confirmation(o, p, GatewaySignature(o, p))
    IN  { Without(full, k) : k \in DOMAIN full }
        \cup { [full EXCEPT ![k] = <<>>] : k \in DOMAIN full }
        \cup { Confirmation(<<>>, p, GatewaySignature(<<>>, p)),
               Confirmation(o, <<>>, GatewaySignature(o, <<>>)),
               EmptyObject }

VerifyPaymentBodies == FullConfirmations \cup PartialConfirmations

(***************************************************************************)
(* State.                                                                  *)
(*   orders        the gateway's orders, by id                             *)
(*   courses       the store's courses table                               *)
(*   user_courses  the store's grant table, in insertion order             *)
(*   grantLog      for each row of user_courses, the confirmation of the   *)
(*                 request that inserted it (history)                      *)
(*   conn          per connection, the request being handled or the last   *)
(*                 one answered: its route and body, the await it is       *)
(*                 suspended at (pc), its locals, the upstream calls it    *)
(*                 has made and the rows it has added to user_courses      *)
(*                 (history), its response and the number of responses     *)
(*                 sent for it, and whether its insert was pending         *)
(*                 together with another request's insert of the same row  *)
(*                 (history)                                               *)
(***************************************************************************)
VARIABLES orders, courses, user_courses, grantLog, conn

vars == <<orders, courses, user_courses, grantLog, conn>>

\* Connections handled concurrently.
Conns == {"a", "b"}

NoResponse == [status |-> 0, body |-> EmptyObject]

Idle ==
    [route |-> "none", body |-> EmptyObject, pc |-> "idle",
     locals |-> EmptyObject, calls |-> <<>>, inserted |-> <<>>,
     res |-> NoResponse, sent |-> 0, raced |-> FALSE]

\* res.status(n).json(body) followed by the handler's return.
Respond(req, status, body) ==
    [req EXCEPT !.pc = "done", !.res = [status |-> status, body |-> body],
                !.sent = @ + 1]

\* What an upstream call throws or rejects with.
UpstreamErrors ==
    {[message |-> "connect ETIMEDOUT"], [message |-> "Authentication failed"]}

\* The handler suspends at an await on an upstream call.
Await(req, call, locals) ==
    [req EXCEPT !.pc = call, !.calls = Append(@, call), !.locals = locals]

Init ==
    /\ orders = [id \in ForeignIds |->
                     CHOOSE o \in ForeignOrders : o.id = id]
    /\ courses = CourseRows
    /\ user_courses = <<>>
    /\ grantLog = <<>>
    /\ conn = [c \in Conns |-> Idle]

Free(c) == conn[c].pc = "idle"

\* The response has been sent and the connection takes the next request.
Close(c) ==
    /\ conn[c].pc = "done"
    /\ conn' = [conn EXCEPT ![c] = Idle]
    /\ UNCHANGED <<orders, courses, user_courses, grantLog>>

(***************************************************************************)
(* POST /create-order                                                      *)
(***************************************************************************)
\* The check of the amount alone.
MissingOrderFieldsAmountOnly(body) == FalsyNum(body, "amount")

MissingOrderFields(body) ==
    FalsyNum(body, "amount") \/ FalsyStr(body, "course_slug")
        \/ FalsyStr(body, "user_id")

\* The options with the spread of the caller's notes written last.
OrderOptionsNotesLast(body, now) ==
    Spread(Pick(body, {"amount"}),
           [currency |-> IF Has(body, "currency") THEN body.currency
                         ELSE "INR",
            receipt |-> IF FalsyStr(body, "receipt") THEN "order_rcpt_" \o now
                        ELSE body.receipt,
            notes |-> Spread(Pick(body, {"course_slug", "user_id"}),
                             IF Has(body, "notes") THEN body.notes
                             ELSE EmptyObject)])

OrderOptions(body, now) ==
    Spread(Pick(body, {"amount"}),
           [currency |-> IF Has(body, "currency") THEN body.currency
                         ELSE "INR",
            receipt |-> IF FalsyStr(body, "receipt") THEN "order_rcpt_" \o now
                        ELSE body.receipt,
            notes |-> Spread(IF Has(body, "notes") THEN body.notes
                             ELSE EmptyObject,
                             Pick(body, {"course_slug", "user_id"}))])

\* The handler up to its first await.
CreateOrderHandler(body, now) ==
    LET req == [Idle EXCEPT !.route = "/create-order", !.body = body]
    IN  IF MissingOrderFields(body)
        THEN Respond(req, 400,
                     [error |-> "Amount, course_slug and user_id are required"])
        ELSE Await(req, "orders.create", [options |-> OrderOptions(body, now)])

CreateOrderRequest(c) ==
    /\ Free(c)
    /\ \E body \in CreateOrderBodies, now \in Clock :
           conn' = [conn EXCEPT ![c] = CreateOrderHandler(body, now)]
    /\ UNCHANGED <<orders, courses, user_courses, grantLog>>

\* Orders created through /create-order.
Created == DOMAIN orders \ ForeignIds

\* Order creation that grants the course at once, before any payment.
OrdersCreateResolvesGranting(c) ==
    /\ conn[c].pc = "orders.create"
    /\ Cardinality(Created) < MaxOrders
    /\ LET id == OrderId(Cardinality(Created) + 1)
           order == Spread(conn[c].locals.options,
                           [id |-> id, status |-> "created"])
       IN  /\ orders' = [i \in DOMAIN orders \cup {id} |->
                            IF i = id THEN order ELSE orders[i]]
           /\ conn' = [conn EXCEPT ![c] = Respond(@, 200, order)]
    /\ user_courses' = Append(user_courses,
                              [user_id |-> conn[c].body.user_id,
                               course_id |-> 0])
    /\ grantLog' = Append(grantLog, conn[c].body)
    /\ UNCHANGED courses

\* razorpay.orders.create resolves: the gateway stores the order and the
\* handler answers with it.
OrdersCreateResolves(c) ==
    /\ conn[c].pc = "orders.create"
    /\ Cardinality(Created) < MaxOrders
    /\ LET id == OrderId(Cardinality(Created) + 1)
           order == Spread(conn[c].locals.options,
                           [id |-> id, status |-> "created"])
       IN  /\ orders' = [i \in DOMAIN orders \cup {id} |->
                            IF i = id THEN order ELSE orders[i]]
           /\ conn' = [conn EXCEPT ![c] = Respond(@, 200, order)]
    /\ UNCHANGED <<courses, user_courses, grantLog>>

\* The catch block answering with the error's own message.
UnableToCreateOrderLeaks(req, err) ==
    Respond(req, 500, [error |-> err.message])

\* catch (err): the error is logged and a fixed body is sent.
UnableToCreateOrder(req, err) ==
    Respond(req, 500, [error |-> "Unable to create order"])

\* razorpay.orders.create rejects: the catch block answers.
OrdersCreateRejects(c) ==
    /\ conn[c].pc = "orders.create"
    /\ \E err \in UpstreamErrors :
           conn' = [conn EXCEPT ![c] = UnableToCreateOrder(@, err)]
    /\ UNCHANGED <<orders, courses, user_courses, grantLog>>

(***************************************************************************)
(* POST /verify-payment                                                    *)
(***************************************************************************)
Null == [null |-> TRUE]

\* The check without its razorpay_payment_id operand.
MissingPaymentDetailsNoPaymentId(body) ==
    FalsyText(body, "razorpay_order_id")
        \/ FalsyText(body, "razorpay_signature")

MissingPaymentDetails(body) ==
    FalsyText(body, "razorpay_order_id")
        \/ FalsyText(body, "razorpay_payment_id")
        \/ FalsyText(body, "razorpay_signature")

\* The HMAC of the two ids joined without the separator.
expectedSignatureNoSeparator(body) ==
    createHmac(KEY_SECRET,
               ToText(body, "razorpay_order_id")
                   \o ToText(body, "razorpay_payment_id"))

expectedSignature(body) ==
    createHmac(KEY_SECRET,
               ToText(body, "razorpay_order_id") \o <<"|">>
                   \o ToText(body, "razorpay_payment_id"))

\* The comparison left out.
InvalidSignatureUnchecked(body) == FALSE

\* The comparison of the first characters only.
InvalidSignatureFirstChar(body) ==
    ~Has(body, "razorpay_signature")
        \/ Head(expectedSignature(body)) # Head(body.razorpay_signature)

\* expectedSignature !== razorpay_signature
InvalidSignature(body) ==
    ~Has(body, "razorpay_signature")
        \/ expectedSignature(body) # body.razorpay_signature

\* The handler up to its first await.
VerifyPaymentHandler(body) ==
    LET req == [Idle EXCEPT !.route = "/verify-payment", !.body = body]
    IN  IF MissingPaymentDetails(body)
        THEN Respond(req, 400, [success |-> FALSE,
                                message |-> "Missing payment details"])
        ELSE IF InvalidSignature(body)
        THEN Respond(req, 400, [success |-> FALSE,
                                message |-> "Invalid signature"])
        ELSE Await(req, "orders.fetch", EmptyObject)

\* catch (err): the error is logged and a fixed body is sent.
\* The handler without its try/catch: the rejection leaves the async
\* handler and no response is sent.
ServerErrorUncaught(req, err) == [req EXCEPT !.pc = "unhandled"]

\* A catch block that issues the failed call once more before giving up.
ServerErrorRetrying(req, err) ==
    IF Cardinality({i \in 1..Len(req.calls) : req.calls[i] = req.pc}) < 2
    THEN Await(req, req.pc, req.locals)
    ELSE Respond(req, 500, [success |-> FALSE,
                            message |-> "Server error verifying payment"])

ServerError(req, err) ==
    Respond(req, 500, [success |-> FALSE,
                       message |-> "Server error verifying payment"])

\* The check without its user_id operand.
MissingMetadataSlugOnly(order) ==
    ~Has(order, "notes") \/ FalsyStr(order.notes, "course_slug")

\* !course_slug || !user_id, both read through order.notes?.
MissingMetadata(order) ==
    ~Has(order, "notes") \/ FalsyStr(order.notes, "course_slug")
        \/ FalsyStr(order.notes, "user_id")

\* The handler from the fetched order to its next await.
AfterFetch(req, order) ==
    IF MissingMetadata(order)
    THEN Respond(req, 500, [success |-> FALSE, message |-> "Missing metadata"])
    ELSE Await(req, "courses.select",
               Pick(order.notes, {"course_slug", "user_id"}))

\* courseError || !course
CourseNotFound(result) == result.error # Null \/ result.data = Null

\* The same answer with the status a missing resource usually gets.
CourseNotFoundResponse404(req) ==
    Respond(req, 404,
            Spread([success |-> FALSE, message |-> "Course not found"],
                   IF Has(req.locals, "course_slug")
                   THEN [slug_received |-> req.locals.course_slug]
                   ELSE EmptyObject))

CourseNotFoundResponse(req) ==
    Respond(req, 500,
            Spread([success |-> FALSE, message |-> "Course not found"],
                   IF Has(req.locals, "course_slug")
                   THEN [slug_received |-> req.locals.course_slug]
                   ELSE EmptyObject))

\* The handler from the lookup's result to its next await.
AfterSelect(req, result) ==
    LET locals == Spread(req.locals, [course |-> result.data,
                                      courseError |-> result.error])
    IN  IF CourseNotFound(result)
        THEN CourseNotFoundResponse([req EXCEPT !.locals = locals])
        ELSE IF result.data = Null
        THEN \* course.id of a null course throws while the row is built
             ServerError([req EXCEPT !.locals = locals],
                         [message |-> "Cannot read properties of null"])
        ELSE Await(req, "user_courses.insert", locals)

\* Every insert error ignored.
InsertFailedNever(ucError) == FALSE

\* Every insert error, the unique violation included, taken as a failure.
InsertFailedAnyError(ucError) == ucError # Null

\* The comparison of the code inverted.
InsertFailedOnDuplicate(ucError) == ucError # Null /\ ucError.code = "23505"

\* ucError && ucError.code !== "23505"
InsertFailed(ucError) == ucError # Null /\ ucError.code # "23505"

\* The handler from the insert's result to its response.
AfterInsert(req, ucError) ==
    LET r == [req EXCEPT !.locals = Spread(@, [ucError |-> ucError])]
    IN  IF InsertFailed(ucError)
        THEN Respond(r, 500, [success |-> FALSE,
                              message |-> "Could not grant access"])
        ELSE Respond(r, 200, [success |-> TRUE])

VerifyPaymentRequest(c) ==
    /\ Free(c)
    /\ \E body \in VerifyPaymentBodies :
           conn' = [conn EXCEPT ![c] = VerifyPaymentHandler(body)]
    /\ UNCHANGED <<orders, courses, user_courses, grantLog>>

\* razorpay.orders.fetch resolves with the gateway's order.
OrdersFetchResolves(c) ==
    /\ conn[c].pc = "orders.fetch"
    /\ conn[c].body.razorpay_order_id \in DOMAIN orders
    /\ conn' = [conn EXCEPT ![c] =
                   AfterFetch(@, orders[conn[c].body.razorpay_order_id])]
    /\ UNCHANGED <<orders, courses, user_courses, grantLog>>

\* razorpay.orders.fetch rejects (no such order, or the gateway is
\* unreachable).
OrdersFetchRejects(c) ==
    /\ conn[c].pc = "orders.fetch"
    /\ \E err \in UpstreamErrors :
           conn' = [conn EXCEPT ![c] = ServerError(@, err)]
    /\ UNCHANGED <<orders, courses, user_courses, grantLog>>

\* The lookup without its filter on the slug: some row of the table.
SelectSingleUnfiltered(slug) ==
    IF courses # {}
    THEN [data |-> CHOOSE r \in courses : TRUE, error |-> Null]
    ELSE [data |-> Null, error |-> [code |-> "PGRST116"]]

\* from("courses").select("id, slug").eq("slug", slug).single()
SelectSingle(slug) ==
    LET rows == {r \in courses : r.slug = slug}
    IN  IF Cardinality(rows) = 1
        THEN [data |-> CHOOSE r \in rows : TRUE, error |-> Null]
        ELSE [data |-> Null, error |-> [code |-> "PGRST116"]]

StoreUnavailable == [code |-> "08006"]

CoursesSelectReturns(c) ==
    /\ conn[c].pc = "courses.select"
    /\ \E result \in {SelectSingle(conn[c].locals.course_slug),
                      [data |-> Null, error |-> StoreUnavailable]} :
           conn' = [conn EXCEPT ![c] = AfterSelect(@, result)]
    /\ UNCHANGED <<orders, courses, user_courses, grantLog>>

CoursesSelectThrows(c) ==
    /\ conn[c].pc = "courses.select"
    /\ \E err \in UpstreamErrors :
           conn' = [conn EXCEPT ![c] = ServerError(@, err)]
    /\ UNCHANGED <<orders, courses, user_courses, grantLog>>

Rows(table) == {table[i] : i \in 1..Len(table)}

\* { user_id, course_id: course.id }
GrantRow(locals) ==
    Spread(Pick(locals, {"user_id"}), [course_id |-> locals.course.id])

\* The insert into a table without the unique constraint.
InsertErrorNoConstraint(table, row, failure) == failure

\* from("user_courses").insert(row) under the table's unique constraint on
\* (user_id, course_id): the error is null when the row was added.
InsertError(table, row, failure) ==
    IF failure # Null THEN failure
    ELSE IF row \in Rows(table) THEN [code |-> "23505"]
    ELSE Null

UserCoursesInsertReturns(c) ==
    /\ conn[c].pc = "user_courses.insert"
    /\ \E failure \in {Null, StoreUnavailable} :
           LET row == GrantRow(conn[c].locals)
               ucError == InsertError(user_courses, row, failure)
               added == IF ucError = Null THEN <<row>> ELSE <<>>
               racing == {d \in Conns \ {c} :
                             /\ conn[d].pc = "user_courses.insert"
                             /\ GrantRow(conn[d].locals) = row}
           IN  /\ user_courses' = user_courses \o added
               /\ grantLog' = IF ucError = Null
                              THEN Append(grantLog, conn[c].body)
                              ELSE grantLog
               /\ conn' = [d \in Conns |->
                              IF d = c
                              THEN AfterInsert(
                                       [conn[c] EXCEPT
                                           !.inserted = @ \o added,
                                           !.raced = @ \/ racing # {}],
                                       ucError)
                              ELSE IF d \in racing
                              THEN [conn[d] EXCEPT !.raced = TRUE]
                              ELSE conn[d]]
    /\ UNCHANGED <<orders, courses>>

UserCoursesInsertThrows(c) ==
    /\ conn[c].pc = "user_courses.insert"
    /\ \E err \in UpstreamErrors :
           conn' = [conn EXCEPT ![c] = ServerError(@, err)]
    /\ UNCHANGED <<orders, courses, user_courses, grantLog>>

Next ==
    \E c \in Conns :
        \/ CreateOrderRequest(c)
        \/ OrdersCreateResolves(c)
        \/ OrdersCreateRejects(c)
        \/ VerifyPaymentRequest(c)
        \/ OrdersFetchResolves(c)
        \/ OrdersFetchRejects(c)
        \/ CoursesSelectReturns(c)
        \/ CoursesSelectThrows(c)
        \/ UserCoursesInsertReturns(c)
        \/ UserCoursesInsertThrows(c)
        \/ Close(c)

Spec == Init /\ [][Next]_vars

\* The return, normal or thrown, of the upstream call connection c awaits.
UpstreamReturns(c) ==
    \/ OrdersCreateResolves(c)
    \/ OrdersCreateRejects(c)
    \/ OrdersFetchResolves(c)
    \/ OrdersFetchRejects(c)
    \/ CoursesSelectReturns(c)
    \/ CoursesSelectThrows(c)
    \/ UserCoursesInsertReturns(c)
    \/ UserCoursesInsertThrows(c)

\* Every awaited upstream call eventually returns or throws.
FairSpec == Spec /\ \A c \in Conns : WF_vars(UpstreamReturns(c))

(***************************************************************************)
(* Vocabulary of the properties.                                           *)
(***************************************************************************)
Verifying(c) == conn[c].route = "/verify-payment"
Creating(c) == conn[c].route = "/create-order"
Answered(c) == conn[c].pc = "done"

Called(c, call) == \E i \in 1..Len(conn[c].calls) : conn[c].calls[i] = call

\* The response is the failure {success: false, ...} with this status.
Failure(c, status) ==
    /\ Answered(c)
    /\ conn[c].res.status = status
    /\ Has(conn[c].res.body, "success")
    /\ conn[c].res.body.success = FALSE

\* The response is 200 {success: true}.
Success(c) ==
    /\ Answered(c)
    /\ conn[c].res.status = 200
    /\ conn[c].res.body = [success |-> TRUE]

\* The three fields of a confirmation are present and non-empty.
Complete(body) ==
    \A k \in {"razorpay_order_id", "razorpay_payment_id", "razorpay_signature"} :
        Has(body, k) /\ body[k] # <<>>

\* The complete confirmations whose signature is the hex HMAC of
\* order_id + "|" + payment_id under the shared secret.
SignedConfirmations ==
    {b \in VerifyPaymentBodies :
        /\ Complete(b)
        /\ b.razorpay_signature =
               createHmac(KEY_SECRET, b.razorpay_order_id \o <<"|">>
                                          \o b.razorpay_payment_id)}

Signed(body) == body \in SignedConfirmations

\* The number of rows of user_courses equal to row.
Copies(row) == Cardinality({i \in 1..Len(user_courses) : user_courses[i] = row})

(***************************************************************************)
(* C1: every row of the grant table was inserted by a /verify-payment      *)
(* request whose confirmation is complete and whose signature is the HMAC  *)
(* of its order_id|payment_id; a request has issued the grant insert only  *)
(* if its signature is that HMAC; a /create-order request never issues it  *)
(* and never adds a row.                                                   *)
(***************************************************************************)
C1_GrantOnlyAfterSignature ==
    /\ Len(grantLog) = Len(user_courses)
    /\ \A i \in 1..Len(grantLog) :
           Complete(grantLog[i]) /\ Signed(grantLog[i])
    /\ \A c \in Conns :
           /\ (Called(c, "user_courses.insert") \/ conn[c].inserted # <<>>)
                  => Verifying(c) /\ Complete(conn[c].body)
                         /\ Signed(conn[c].body)
           /\ Creating(c)
                  => ~Called(c, "user_courses.insert") /\ conn[c].inserted = <<>>

C1_Witness ==
    /\ Len(user_courses) >= 1
    /\ \E c \in Conns : Verifying(c) /\ conn[c].inserted # <<>>

(***************************************************************************)
(* C2: a /verify-payment request whose three fields are present and       *)
(* non-empty gets past the signature step (issues its first upstream call) *)
(* exactly when its signature is the hex HMAC of order_id|payment_id under *)
(* the secret; a request with any other signature is answered 400          *)
(* {success: false}.                                                       *)
(***************************************************************************)
C2_AcceptsIffHmac ==
    \A c \in Conns :
        Verifying(c) =>
            /\ Complete(conn[c].body) =>
                   ((conn[c].calls # <<>>) <=> Signed(conn[c].body))
            /\ ~Signed(conn[c].body) => Failure(c, 400)

C2_Witness ==
    \E c, d \in Conns :
        /\ Verifying(c) /\ Complete(conn[c].body) /\ Signed(conn[c].body)
        /\ Called(c, "orders.fetch")
        /\ Verifying(d) /\ Complete(conn[d].body)
        /\ conn[d].body = [conn[c].body EXCEPT !.razorpay_signature =
                              Mutate(conn[c].body.razorpay_signature, DigestLen)]
        /\ Failure(d, 400)

(***************************************************************************)
(* C3: a /verify-payment request whose signature does not match is         *)
(* answered 400 {success: false} by the step that receives it, has made no *)
(* upstream call, and that step changes neither the grant table nor the    *)
(* gateway's orders nor the courses.                                       *)
(***************************************************************************)
Mismatch(req) ==
    req.route = "/verify-payment" /\ Complete(req.body) /\ ~Signed(req.body)

C3_MismatchNoSideEffects ==
    /\ [](\A c \in Conns :
              Mismatch(conn[c]) =>
                  /\ Failure(c, 400)
                  /\ conn[c].calls = <<>>
                  /\ conn[c].inserted = <<>>)
    /\ [][\A c \in Conns :
              conn[c].pc = "idle" /\ Mismatch(conn'[c]) =>
                  /\ conn'[c].pc = "done"
                  /\ user_courses' = user_courses
                  /\ grantLog' = grantLog
                  /\ orders' = orders
                  /\ courses' = courses]_vars

C3_Witness ==
    \E c \in Conns :
        /\ Mismatch(conn[c])
        /\ conn[c].body.razorpay_order_id \in Created
        /\ conn[c].res.body.message = "Invalid signature"
        /\ Len(user_courses) >= 1

(***************************************************************************)
(* C4: a /verify-payment request answered {success: true} has the grant of *)
(* its order (the order's user_id and the id of the course its slug names) *)
(* in the grant table; a request answered otherwise added no row; and a    *)
(* request answered {success: true} that added no row is the duplicate     *)
(* conflict (23505).                                                       *)
(***************************************************************************)
Resolvable(id) ==
    /\ id \in DOMAIN orders
    /\ Has(orders[id], "notes")
    /\ Has(orders[id].notes, "course_slug")
    /\ Has(orders[id].notes, "user_id")
    /\ \E r \in courses : r.slug = orders[id].notes.course_slug

\* The grant a resolvable order stands for.
OrderGrant(id) ==
    [user_id |-> orders[id].notes.user_id,
     course_id |-> (CHOOSE r \in courses :
                        r.slug = orders[id].notes.course_slug).id]

C4_NoPartialSuccess ==
    \A c \in Conns :
        Verifying(c) /\ Answered(c) =>
            /\ Success(c) =>
                   /\ Complete(conn[c].body)
                   /\ Resolvable(conn[c].body.razorpay_order_id)
                   /\ Copies(OrderGrant(conn[c].body.razorpay_order_id)) >= 1
            /\ ~Success(c) => Failure(c, conn[c].res.status)
                                  /\ conn[c].inserted = <<>>
            /\ Success(c) /\ conn[c].inserted = <<>> =>
                   conn[c].locals.ucError = [code |-> "23505"]

C4_Witness ==
    \E c, d \in Conns :
        /\ Verifying(c) /\ Success(c) /\ conn[c].inserted # <<>>
        /\ Verifying(d) /\ Failure(d, 500) /\ conn[d].inserted = <<>>
        /\ conn[d].res.body.message = "Could not grant access"

(***************************************************************************)
(* C5: no grant row occurs twice in the grant table, and every             *)
(* /verify-payment request whose insert returned without a store failure   *)
(* (the row was added, or it was already there) is answered                *)
(* {success: true} and leaves exactly one row for its (user_id, course_id).*)
(***************************************************************************)
C5_IdempotentGrant ==
    /\ \A i, j \in 1..Len(user_courses) :
           user_courses[i] = user_courses[j] => i = j
    /\ \A c \in Conns :
           /\ Verifying(c)
           /\ Has(conn[c].locals, "ucError")
           /\ conn[c].locals.ucError \in {Null, [code |-> "23505"]}
           => Success(c) /\ Copies(GrantRow(conn[c].locals)) = 1

C5_Witness ==
    \E c, d \in Conns :
        /\ c # d /\ conn[c].body = conn[d].body
        /\ Verifying(c) /\ Success(c) /\ conn[c].inserted # <<>>
        /\ Verifying(d) /\ Success(d) /\ conn[d].inserted = <<>>
        /\ Copies(GrantRow(conn[d].locals)) = 1

(***************************************************************************)
(* C6: a /verify-payment request in which one of the three fields is       *)
(* absent or empty is answered 400 {success: false} and has made no        *)
(* upstream call.                                                          *)
(***************************************************************************)
C6_MissingFieldsNoCalls ==
    \A c \in Conns :
        Verifying(c) /\ ~Complete(conn[c].body) =>
            Failure(c, 400) /\ conn[c].calls = <<>> /\ conn[c].inserted = <<>>

C6_Witness ==
    \E c, d \in Conns :
        /\ Verifying(c) /\ ~Has(conn[c].body, "razorpay_signature")
        /\ Failure(c, 400)
        /\ Verifying(d) /\ Has(conn[d].body, "razorpay_payment_id")
        /\ conn[d].body.razorpay_payment_id = <<>>
        /\ Has(conn[d].body, "razorpay_signature")
        /\ conn[d].body.razorpay_signature = expectedSignature(conn[d].body)
        /\ Failure(d, 400)

(***************************************************************************)
(* C7: a /create-order request without amount, course_slug or user_id      *)
(* (absent, or 0 / empty) is answered 400 and has not called the gateway;  *)
(* no order created through /create-order lacks one of them.               *)
(***************************************************************************)
Incomplete(body) ==
    \/ ~Has(body, "amount") \/ body.amount = 0
    \/ ~Has(body, "course_slug") \/ body.course_slug = ""
    \/ ~Has(body, "user_id") \/ body.user_id = ""

C7_MissingOrderFieldsNoOrder ==
    /\ \A c \in Conns :
           Creating(c) /\ Incomplete(conn[c].body) =>
               /\ Answered(c) /\ conn[c].res.status = 400
               /\ conn[c].calls = <<>>
    /\ \A id \in Created :
           ~Incomplete(Spread(Pick(orders[id], {"amount"}), orders[id].notes))

C7_Witness ==
    \E c, d \in Conns :
        /\ Creating(c) /\ ~Has(conn[c].body, "course_slug")
        /\ Has(conn[c].body, "amount") /\ Has(conn[c].body, "user_id")
        /\ conn[c].res.status = 400
        /\ Creating(d) /\ ~Has(conn[d].body, "user_id")
        /\ Has(conn[d].body, "amount") /\ Has(conn[d].body, "course_slug")
        /\ conn[d].res.status = 400
        /\ Created = {}

(***************************************************************************)
(* C8: a /verify-payment request that is past its course lookup, and whose *)
(* order's course_slug names no course or whose lookup returned an error,  *)
(* is answered 500 {success: false}, has not issued the insert and has     *)
(* added no row.                                                           *)
(***************************************************************************)
PastCall(c, call) == Called(c, call) /\ conn[c].pc # call

C8_CourseNotFound ==
    \A c \in Conns :
        /\ Verifying(c) /\ PastCall(c, "courses.select")
        /\ \/ ~Resolvable(conn[c].body.razorpay_order_id)
           \/ /\ Has(conn[c].locals, "courseError")
              /\ conn[c].locals.courseError # Null
        => /\ Failure(c, 500)
           /\ ~Called(c, "user_courses.insert")
           /\ conn[c].inserted = <<>>

C8_Witness ==
    \E c \in Conns :
        /\ Verifying(c) /\ PastCall(c, "courses.select")
        /\ orders[conn[c].body.razorpay_order_id].notes.course_slug = "no-such"
        /\ conn[c].res.body.message = "Course not found"
        /\ Failure(c, 500)

(***************************************************************************)
(* C9: a /verify-payment request that is past its order fetch, and whose   *)
(* fetched order's notes lack course_slug or user_id, is answered 500      *)
(* {success: false} and has issued neither the course lookup nor the       *)
(* insert.                                                                 *)
(***************************************************************************)
LacksMetadata(id) ==
    /\ id \in DOMAIN orders
    /\ \/ ~Has(orders[id], "notes")
       \/ ~Has(orders[id].notes, "course_slug")
       \/ orders[id].notes.course_slug = ""
       \/ ~Has(orders[id].notes, "user_id")
       \/ orders[id].notes.user_id = ""

C9_MissingMetadataTerminal ==
    \A c \in Conns :
        /\ Verifying(c) /\ PastCall(c, "orders.fetch")
        /\ LacksMetadata(conn[c].body.razorpay_order_id)
        => /\ Failure(c, 500)
           /\ conn[c].calls = <<"orders.fetch">>
           /\ conn[c].inserted = <<>>

C9_Witness ==
    \E c, d \in Conns :
        /\ Verifying(c) /\ conn[c].res.body = [success |-> FALSE,
                                               message |-> "Missing metadata"]
        /\ ~Has(orders[conn[c].body.razorpay_order_id].notes, "course_slug")
        /\ Verifying(d) /\ conn[d].res.body = [success |-> FALSE,
                                               message |-> "Missing metadata"]
        /\ Has(orders[conn[d].body.razorpay_order_id].notes, "course_slug")

(***************************************************************************)
(* C10: when the grant insert returns the unique violation 23505 the       *)
(* request is answered {success: true}; when it returns any other error,   *)
(* or throws, the request is answered 500 {success: false}.                *)
(***************************************************************************)
C10_DuplicateIsSuccess ==
    \A c \in Conns :
        Verifying(c) /\ PastCall(c, "user_courses.insert") =>
            IF Has(conn[c].locals, "ucError")
            THEN /\ conn[c].locals.ucError = [code |-> "23505"] => Success(c)
                 /\ conn[c].locals.ucError \notin {Null, [code |-> "23505"]}
                        => Failure(c, 500)
            ELSE Failure(c, 500)

C10_Witness ==
    \E c, d \in Conns :
        /\ Verifying(c) /\ Has(conn[c].locals, "ucError")
        /\ conn[c].locals.ucError = [code |-> "23505"] /\ Success(c)
        /\ Verifying(d) /\ Has(conn[d].locals, "ucError")
        /\ conn[d].locals.ucError = StoreUnavailable /\ Failure(d, 500)

(***************************************************************************)
(* C11: every row of the grant table is the grant of the order its         *)
(* inserting confirmation names (that order's user_id and the id of the    *)
(* course its course_slug names), and a row a request has added is the     *)
(* grant of the order in its own confirmation; when the /create-order      *)
(* request that created that order is still on the other connection, the   *)
(* row has that request's user_id and the course its course_slug names.    *)
(***************************************************************************)
\* The /create-order request on c was answered with the order with this id.
CreatedBy(c, id) ==
    /\ Creating(c) /\ Answered(c) /\ conn[c].res.status = 200
    /\ conn[c].res.body.id = id

C11_GrantMatchesOrder ==
    /\ \A i \in 1..Len(user_courses) :
           /\ Resolvable(grantLog[i].razorpay_order_id)
           /\ user_courses[i] = OrderGrant(grantLog[i].razorpay_order_id)
    /\ \A d \in Conns :
           Verifying(d) /\ conn[d].inserted # <<>> =>
               /\ Resolvable(conn[d].body.razorpay_order_id)
               /\ conn[d].inserted =
                      <<OrderGrant(conn[d].body.razorpay_order_id)>>
               /\ \A c \in Conns :
                      CreatedBy(c, conn[d].body.razorpay_order_id) =>
                          \E r \in courses :
                              /\ r.slug = conn[c].body.course_slug
                              /\ conn[d].inserted =
                                     <<[user_id |-> conn[c].body.user_id,
                                        course_id |-> r.id]>>

\* Two orders for different users and courses exist; the request that
\* created the second is on one connection and the request that verified
\* it, and added its grant, on the other.
C11_Witness ==
    \E c, d \in Conns :
        /\ CreatedBy(c, OrderId(2))
        /\ orders[OrderId(1)].notes.user_id # orders[OrderId(2)].notes.user_id
        /\ orders[OrderId(1)].notes.course_slug
               # orders[OrderId(2)].notes.course_slug
        /\ Verifying(d) /\ Success(d)
        /\ conn[d].body.razorpay_order_id = OrderId(2)
        /\ conn[d].inserted # <<>>

(***************************************************************************)
(* C12: every 500 response of /verify-payment has a body with exactly the  *)
(* fields success and message, success false and the message one of the    *)
(* four fixed texts, so that it carries nothing obtained from the gateway  *)
(* or the store.  The course-not-found response of lines 284-288 adds      *)
(* slug_received, the course_slug read from the fetched order's notes.     *)
(***************************************************************************)
C12_FixedErrorBody ==
    \A c \in Conns :
        Verifying(c) /\ Answered(c) /\ conn[c].res.status = 500 =>
            /\ DOMAIN conn[c].res.body = {"success", "message"}
            /\ conn[c].res.body.success = FALSE
            /\ conn[c].res.body.message \in
                   {"Missing metadata", "Course not found",
                    "Could not grant access",
                    "Server error verifying payment"}

(***************************************************************************)
(* C13: when every awaited upstream call eventually returns or throws,     *)
(* every request that has been received is eventually answered; a request  *)
(* in flight has sent no response and an answered one exactly one, with    *)
(* status 200, 400 or 500; and the step in which an upstream call throws   *)
(* answers the request on that connection with a 500 whose body is a JSON  *)
(* object with a message.                                                  *)
(***************************************************************************)
\* The upstream call connection c awaits throws.
UpstreamThrows(c) ==
    \/ OrdersCreateRejects(c)
    \/ OrdersFetchRejects(c)
    \/ CoursesSelectThrows(c)
    \/ UserCoursesInsertThrows(c)

InFlight(c) == conn[c].pc \notin {"idle", "done"}

C13_ExactlyOneResponse ==
    /\ \A c \in Conns : InFlight(c) ~> Answered(c)
    /\ [](\A c \in Conns :
              /\ InFlight(c) \/ Free(c) =>
                     conn[c].sent = 0 /\ conn[c].res = NoResponse
              /\ Answered(c) =>
                     conn[c].sent = 1 /\ conn[c].res.status \in {200, 400, 500})
    /\ [][\A c \in Conns :
              UpstreamThrows(c) =>
                  /\ conn'[c].pc = "done"
                  /\ conn'[c].sent = 1
                  /\ conn'[c].res.status = 500
                  /\ \/ Has(conn'[c].res.body, "message")
                     \/ Has(conn'[c].res.body, "error")]_vars

\* Both routes have been answered 500 after their upstream call threw.
C13_Witness ==
    \E c, d \in Conns :
        /\ Creating(c) /\ Answered(c) /\ conn[c].calls = <<"orders.create">>
        /\ conn[c].res = [status |-> 500,
                          body |-> [error |-> "Unable to create order"]]
        /\ Verifying(d) /\ Answered(d) /\ conn[d].sent = 1
        /\ Called(d, "user_courses.insert")
        /\ conn[d].res.body = [success |-> FALSE,
                               message |-> "Server error verifying payment"]

(***************************************************************************)
(* C14: a /create-order request whose gateway call resolved is answered    *)
(* 200 with the order the gateway holds under that id, field for field; a  *)
(* request whose gateway call rejected is answered 500 with the fixed body *)
(* {error: "Unable to create order"}, no field of which is the message of  *)
(* an upstream error.                                                      *)
(***************************************************************************)
C14_OrderPassThrough ==
    \A c \in Conns :
        Creating(c) /\ PastCall(c, "orders.create") =>
            /\ Answered(c)
            /\ conn[c].res.status \in {200, 500}
            /\ conn[c].res.status = 200 =>
                   /\ Has(conn[c].res.body, "id")
                   /\ conn[c].res.body.id \in Created
                   /\ conn[c].res.body = orders[conn[c].res.body.id]
            /\ conn[c].res.status = 500 =>
                   /\ conn[c].res.body = [error |-> "Unable to create order"]
                   /\ \A err \in UpstreamErrors :
                          \A k \in DOMAIN conn[c].res.body :
                              conn[c].res.body[k] # err.message

\* One request was answered with its order and the other with the generic
\* failure.
C14_Witness ==
    \E c, d \in Conns :
        /\ Creating(c) /\ Answered(c) /\ conn[c].res.status = 200
        /\ conn[c].res.body = orders[OrderId(1)]
        /\ Creating(d) /\ Answered(d) /\ conn[d].res.status = 500
        /\ conn[d].calls = <<"orders.create">>

(***************************************************************************)
(* C15: when two /verify-payment requests for the same (user_id,           *)
(* course_id) are both suspended at the grant insert, in whichever order   *)
(* the two inserts return, each request whose insert the store executed    *)
(* is answered {success: true}, the table holds exactly one row for the    *)
(* pair, and at most one of the two requests added it.                     *)
(***************************************************************************)
\* The insert of the request on c was executed by the store: the row was
\* added or the unique constraint refused it.
InsertExecuted(c) ==
    /\ Verifying(c)
    /\ Has(conn[c].locals, "ucError")
    /\ conn[c].locals.ucError \in {Null, [code |-> "23505"]}

C15_ConcurrentGrants ==
    /\ \A c \in Conns :
           conn[c].raced /\ InsertExecuted(c) =>
               /\ Success(c)
               /\ Copies(GrantRow(conn[c].locals)) = 1
               /\ conn[c].inserted \in {<<>>, <<GrantRow(conn[c].locals)>>}
    /\ \A c, d \in Conns :
           /\ c # d
           /\ conn[c].raced /\ InsertExecuted(c)
           /\ conn[d].raced /\ InsertExecuted(d)
           /\ GrantRow(conn[c].locals) = GrantRow(conn[d].locals)
           => /\ Len(conn[c].inserted) + Len(conn[d].inserted) <= 1
              /\ conn[c].locals.ucError = [code |-> "23505"]
                     \/ conn[d].locals.ucError = [code |-> "23505"]

\* Two requests with confirmations for different orders of the same user
\* and course overlapped at the insert: one added the row, the other got
\* the unique violation, both were answered {success: true}.
C15_Witness ==
    \E c, d \in Conns :
        /\ c # d /\ conn[c].raced /\ conn[d].raced
        /\ Verifying(c) /\ Success(c) /\ Verifying(d) /\ Success(d)
        /\ conn[c].body.razorpay_order_id # conn[d].body.razorpay_order_id
        /\ conn[c].inserted = <<GrantRow(conn[c].locals)>>
        /\ conn[d].locals.ucError = [code |-> "23505"]
        /\ GrantRow(conn[d].locals) = GrantRow(conn[c].locals)
        /\ Len(user_courses) = 1

(***************************************************************************)
(* C16: the upstream calls a /verify-payment request has made are an       *)
(* initial part of orders.fetch, courses.select, user_courses.insert, and  *)
(* those of a /create-order request an initial part of orders.create, so   *)
(* no call is made twice or out of order; a request in flight awaits the   *)
(* last call it made; and a request one of whose calls threw or returned   *)
(* an error (other than the insert's unique violation) is answered 500     *)
(* with that call its last.                                                *)
(***************************************************************************)
IsPrefix(s, t) == Len(s) <= Len(t) /\ s = SubSeq(t, 1, Len(s))

VerifyCalls == <<"orders.fetch", "courses.select", "user_courses.insert">>

CreateCalls == <<"orders.create">>

C16_NoRetry ==
    \A c \in Conns :
        /\ Verifying(c) => IsPrefix(conn[c].calls, VerifyCalls)
        /\ Creating(c) => IsPrefix(conn[c].calls, CreateCalls)
        /\ InFlight(c) =>
               /\ conn[c].calls # <<>>
               /\ conn[c].calls[Len(conn[c].calls)] = conn[c].pc
        /\ Answered(c) /\ conn[c].res.body \in
               {[success |-> FALSE,
                 message |-> "Server error verifying payment"],
                [error |-> "Unable to create order"]}
               => conn[c].res.status = 500 /\ conn[c].calls # <<>>
        /\ Verifying(c) /\ Answered(c) /\ Len(conn[c].calls) \in {1, 2}
               => Failure(c, 500)
        /\ /\ Verifying(c) /\ Has(conn[c].locals, "courseError")
           /\ conn[c].locals.courseError # Null
           => Failure(c, 500) /\ Len(conn[c].calls) = 2
        /\ /\ Verifying(c) /\ Has(conn[c].locals, "ucError")
           /\ conn[c].locals.ucError \notin {Null, [code |-> "23505"]}
           => Failure(c, 500) /\ Len(conn[c].calls) = 3

\* One request ended at a throwing fetch and the other made all three
\* calls and ended at a failing insert.
C16_Witness ==
    \E c, d \in Conns :
        /\ Verifying(c) /\ Answered(c) /\ conn[c].calls = <<"orders.fetch">>
        /\ conn[c].body.razorpay_order_id \in Created
        /\ conn[c].res.body = [success |-> FALSE,
                               message |-> "Server error verifying payment"]
        /\ Verifying(d) /\ Answered(d) /\ conn[d].calls = VerifyCalls
        /\ conn[d].res.body = [success |-> FALSE,
                               message |-> "Could not grant access"]

(***************************************************************************)
(* C17: the options a /create-order request sends to the gateway, and the  *)
(* order it is answered with, have in notes the course_slug and user_id of *)
(* the request's top-level fields, also when the request's own notes hold  *)
(* other values under those keys; the other keys of the caller's notes are *)
(* kept; and every order created here has both keys in its notes.          *)
(***************************************************************************)
\* notes has the top-level course_slug and user_id of body and the other
\* keys of body.notes.
NotesOf(notes, body) ==
    /\ Has(notes, "course_slug") /\ notes.course_slug = body.course_slug
    /\ Has(notes, "user_id") /\ notes.user_id = body.user_id
    /\ LET given == IF Has(body, "notes") THEN body.notes ELSE EmptyObject
       IN  /\ DOMAIN notes = DOMAIN given \cup {"course_slug", "user_id"}
           /\ \A k \in DOMAIN given \ {"course_slug", "user_id"} :
                  notes[k] = given[k]

C17_TopLevelMetadata ==
    /\ \A id \in Created :
           /\ Has(orders[id].notes, "course_slug")
           /\ Has(orders[id].notes, "user_id")
    /\ \A c \in Conns :
           Creating(c) /\ Called(c, "orders.create") =>
               /\ NotesOf(conn[c].locals.options.notes, conn[c].body)
               /\ Answered(c) /\ conn[c].res.status = 200 =>
                      /\ NotesOf(conn[c].res.body.notes, conn[c].body)
                      /\ NotesOf(orders[conn[c].res.body.id].notes,
                                 conn[c].body)

\* An order was created from a request whose notes name another course and
\* another user than its top-level fields.
C17_Witness ==
    \E c \in Conns :
        /\ Creating(c) /\ Answered(c) /\ conn[c].res.status = 200
        /\ Has(conn[c].body, "notes")
        /\ Has(conn[c].body.notes, "course_slug")
        /\ conn[c].body.notes.course_slug # conn[c].body.course_slug
        /\ Has(conn[c].body.notes, "user_id")
        /\ conn[c].body.notes.user_id # conn[c].body.user_id
        /\ orders[conn[c].res.body.id].notes.course_slug
               = conn[c].body.course_slug

(***************************************************************************)
(* C18: no step changes the courses table, changes or removes an order     *)
(* that exists, or removes or changes a row of the grant table; a step     *)
(* that adds to the grant table adds one row at its end and is the return  *)
(* of the insert of a /verify-payment request; no step of a /create-order  *)
(* request changes the grant table; and no request has added more than     *)
(* one row, a /create-order request none.                                  *)
(***************************************************************************)
C18_Frame ==
    /\ [](\A c \in Conns :
              /\ Len(conn[c].inserted) <= 1
              /\ Creating(c) => conn[c].inserted = <<>>)
    /\ [][/\ courses' = courses
          /\ \A id \in DOMAIN orders :
                 id \in DOMAIN orders' /\ orders'[id] = orders[id]
          /\ IsPrefix(user_courses, user_courses')
          /\ Len(user_courses') <= Len(user_courses) + 1
          /\ user_courses' # user_courses =>
                 \E c \in Conns :
                     /\ Verifying(c) /\ conn[c].pc = "user_courses.insert"
                     /\ conn'[c].inserted =
                            <<user_courses'[Len(user_courses')]>>
                     /\ orders' = orders
          /\ \A c \in Conns :
                 \/ CreateOrderRequest(c)
                 \/ OrdersCreateResolves(c)
                 \/ OrdersCreateRejects(c)
                 => user_courses' = user_courses]_vars

\* Two orders have been created and two rows granted, the second by the
\* request on one of the connections.
C18_Witness ==
    /\ Cardinality(Created) = 2
    /\ Len(user_courses) = 2
    /\ \E c \in Conns :
           Verifying(c) /\ conn[c].inserted = <<user_courses[2]>>
    /\ \E d \in Conns : Creating(d) /\ Called(d, "orders.create")

=============================================================================
